---- MODULE Spec2Model ----
(***************************************************************************)
(* State-machine model of backend/server.js, a line-oriented TCP chat      *)
(* server: the users registry (a Map kept in insertion order), the         *)
(* command handler, the teardown path, the idle sweep and the SIGINT       *)
(* handler.  The event loop runs one callback at a time, so every action   *)
(* below is one whole callback.                                            *)
(*                                                                         *)
(* Text is modelled as the sequence of tokens that String.split(' ')       *)
(* yields: a line "DM bob hi" is <<"DM", "bob", "hi">>, and two adjacent   *)
(* spaces yield an empty token "".  join(' ') is then concatenation of     *)
(* token sequences and trim() strips the empty tokens at both ends.        *)
(***************************************************************************)
EXTENDS Integers, Sequences, FiniteSets, TLC

(* ------------------------------ bounds -------------------------------- *)

\* number of connections the listener may hand out
NumConns == 2

\* number of clock ticks the model lets pass
MaxTicks == 2

\* the counters of disconnect broadcasts and destroy() calls saturate here
CountCap == 2

(* ----------------------------- constants ------------------------------ *)

IDLE_TIMEOUT == 60000

\* the clock advances in steps of the idle threshold, so that an age of
\* exactly IDLE_TIMEOUT (not yet idle) and an age beyond it both occur
TickMs == IDLE_TIMEOUT

Conns == 1..NumConns

\* excludeSocket = null, and the null that getUsernameBySocket returns
NoSocket == 0
null == <<>>

VARIABLES
  users,       \* the Map: sequence of [username, socket, lastActivity, disconnecting]
  destroyed,   \* socket.destroyed of every connection
  accepted,    \* the connections the createServer callback has run for
  now,         \* Date.now()
  listening,   \* FALSE once server.close() was called
  out,         \* the lines written to each connection by the last callback
  nBroadcast,  \* history: 'INFO <name> disconnected' broadcasts handleDisconnect made for each connection
  nDestroy,    \* history: destroy() calls made on each socket, by the server or the transport
  gone         \* history: the name each connection had when handleDisconnect removed it

vars == <<users, destroyed, accepted, now, listening, out,
          nBroadcast, nDestroy, gone>>

(* --------------------------- text helpers ----------------------------- *)

\* String.prototype.trim on a token sequence: drop empty tokens at both ends
RECURSIVE TrimLeft(_)
TrimLeft(t) ==
  IF t # <<>> /\ Head(t) = "" THEN TrimLeft(Tail(t)) ELSE t

RECURSIVE TrimRight(_)
TrimRight(t) ==
  IF t # <<>> /\ t[Len(t)] = "" THEN TrimRight(SubSeq(t, 1, Len(t) - 1)) ELSE t

Trim(t) == TrimRight(TrimLeft(t))

\* message.split(' ') of a trimmed, non-empty message: the tokens themselves
Split(message) == message

\* parts.slice(k).join(' ') for a 0-based k
SliceJoin(parts, k) == SubSeq(parts, k + 1, Len(parts))

\* parts[0].toUpperCase() on the command words the model sends
ToUpperCase(tok) ==
  CASE tok = "login" -> "LOGIN"
    [] tok = "msg"   -> "MSG"
    [] OTHER         -> tok

(* ------------------------- the users Map ------------------------------ *)

\* users.has(username)
Has(us, username) == \E i \in 1..Len(us) : us[i].username = username

\* users.get(username), for a username the Map has
Get(us, username) ==
  us[CHOOSE i \in 1..Len(us) : us[i].username = username]

\* users.delete(username)
Delete(us, username) == SelectSeq(us, LAMBDA d : d.username # username)

\* users.set(username, data) for a new key: appended in insertion order
SetNew(us, username, data) ==
  Append(us, [username |-> username, socket |-> data.socket,
              lastActivity |-> data.lastActivity,
              disconnecting |-> data.disconnecting])

\* lines 70-72: userData.disconnecting = true
MarkDisconnecting(us, username) ==
  [i \in 1..Len(us) |->
     IF us[i].username = username
       THEN [us[i] EXCEPT !.disconnecting = TRUE]
       ELSE us[i]]

Bump(n) == IF n < CountCap THEN n + 1 ELSE n

(* ------------------------- sending helpers ---------------------------- *)

sendToSocket(s, socket, message) ==
  IF ~s.destroyed[socket]
    THEN [s EXCEPT !.out[socket] = Append(@, message)]
    ELSE s

RECURSIVE broadcastFrom(_, _, _, _)
broadcastFrom(s, message, excludeSocket, i) ==
  IF i > Len(s.users) THEN s
  ELSE LET socket == s.users[i].socket
           s1 == IF socket # excludeSocket /\ ~s.destroyed[socket]
                   THEN sendToSocket(s, socket, message)
                   ELSE s
       IN broadcastFrom(s1, message, excludeSocket, i + 1)

broadcast(s, message, excludeSocket) == broadcastFrom(s, message, excludeSocket, 1)

RECURSIVE broadcastToAllFrom(_, _, _)
broadcastToAllFrom(s, message, i) ==
  IF i > Len(s.users) THEN s
  ELSE LET socket == s.users[i].socket
           s1 == IF ~s.destroyed[socket]
                   THEN sendToSocket(s, socket, message)
                   ELSE s
       IN broadcastToAllFrom(s1, message, i + 1)

broadcastToAll(s, message) == broadcastToAllFrom(s, message, 1)

getUsernameBySocket(us, socket) ==
  IF \E i \in 1..Len(us) : us[i].socket = socket
    THEN LET first == CHOOSE i \in 1..Len(us) :
                        /\ us[i].socket = socket
                        /\ \A j \in 1..(i - 1) : us[j].socket # socket
         IN us[first].username
    ELSE null

updateActivity(s, socket, t) ==
  LET username == getUsernameBySocket(s.users, socket)
  IN IF username # null /\ Has(s.users, username)
       THEN [s EXCEPT !.users =
               [i \in 1..Len(s.users) |->
                  IF s.users[i].username = username
                    THEN [s.users[i] EXCEPT !.lastActivity = t]
                    ELSE s.users[i]]]
       ELSE s

(* ----------------------------- teardown ------------------------------- *)

\* socket.destroy()
Destroy(s, socket) ==
  [s EXCEPT !.destroyed[socket] = TRUE, !.nDestroy[socket] = Bump(@)]

\* mutant: the !socket.destroyed guard of line 84 is missing
EnsureDestroyedUnguarded(s, socket) == Destroy(s, socket)

\* lines 83-90: destroy the socket unless it already is
EnsureDestroyed(s, socket) ==
  IF ~s.destroyed[socket] THEN Destroy(s, socket) ELSE s

\* mutant: users.delete(username) of line 75 is missing
NotifyWithoutRemove(s, socket, username) ==
  LET s2 == broadcast(s, <<"INFO">> \o username \o <<"disconnected">>, NoSocket)
  IN [s2 EXCEPT !.nBroadcast[socket] = Bump(@), !.gone[socket] = username]

\* mutant: the others are notified while the session is still in the Map
NotifyThenRemove(s, socket, username) ==
  LET s1 == broadcast(s, <<"INFO">> \o username \o <<"disconnected">>, NoSocket)
      s2 == [s1 EXCEPT !.users = Delete(@, username)]
  IN [s2 EXCEPT !.nBroadcast[socket] = Bump(@), !.gone[socket] = username]

\* mutant: the session is marked and the others are notified, and
\* users.delete(username) of line 75 is left for later
MarkWithoutRemove(s, socket, username) ==
  LET s0 == [s EXCEPT !.users = MarkDisconnecting(@, username)]
      s2 == broadcast(s0, <<"INFO">> \o username \o <<"disconnected">>, NoSocket)
  IN [s2 EXCEPT !.nBroadcast[socket] = Bump(@), !.gone[socket] = username]

\* lines 69-80: mark the session as disconnecting, remove it from the Map,
\* then notify the others
RemoveAndNotify(s, socket, username) ==
  LET s0 == [s EXCEPT !.users = MarkDisconnecting(@, username)]
      s1 == [s0 EXCEPT !.users = Delete(@, username)]
      s2 == broadcast(s1, <<"INFO">> \o username \o <<"disconnected">>, NoSocket)
  IN [s2 EXCEPT !.nBroadcast[socket] = Bump(@), !.gone[socket] = username]

\* mutant: the name is remembered per socket and looked up again after the
\* session is gone
handleDisconnectByRememberedName(s, socket) ==
  LET found == getUsernameBySocket(s.users, socket)
      username == IF found # null THEN found ELSE s.gone[socket]
  IN IF username # null /\ Has(s.users, username)
       THEN EnsureDestroyed(RemoveAndNotify(s, socket, username), socket)
       ELSE EnsureDestroyed(s, socket)

\* lines 58-91
handleDisconnect(s, socket) ==
  LET username == getUsernameBySocket(s.users, socket)
  IN IF username # null
       THEN LET userData == Get(s.users, username)
            IN IF userData.disconnecting
                 THEN s
                 ELSE EnsureDestroyed(RemoveAndNotify(s, socket, username), socket)
       ELSE EnsureDestroyed(s, socket)

(* ------------------------- command handler ---------------------------- *)

\* mutant: the already-logged-in check of lines 107-110 is missing
cmdLoginNoSessionCheck(s, socket, username, parts, t) ==
  LET newUsername == Trim(SliceJoin(parts, 1))
  IN IF newUsername = <<>> THEN
       sendToSocket(s, socket, <<"ERR", "invalid-username">>)
     ELSE IF Has(s.users, newUsername) THEN
       sendToSocket(s, socket, <<"ERR", "username-taken">>)
     ELSE
       sendToSocket(
         [s EXCEPT !.users =
            SetNew(@, newUsername,
                   [socket |-> socket, lastActivity |-> t,
                    disconnecting |-> FALSE])],
         socket, <<"OK">>)

\* mutant: the users.has(newUsername) check of lines 120-124 is missing
cmdLoginNoTakenCheck(s, socket, username, parts, t) ==
  IF username # null THEN
    sendToSocket(s, socket, <<"ERR", "already-logged-in">>)
  ELSE
    LET newUsername == Trim(SliceJoin(parts, 1))
    IN IF newUsername = <<>> THEN
         sendToSocket(s, socket, <<"ERR", "invalid-username">>)
       ELSE
         sendToSocket(
           [s EXCEPT !.users =
              SetNew(@, newUsername,
                     [socket |-> socket, lastActivity |-> t,
                      disconnecting |-> FALSE])],
           socket, <<"OK">>)

\* lines 106-135
cmdLogin(s, socket, username, parts, t) ==
  IF username # null THEN
    sendToSocket(s, socket, <<"ERR", "already-logged-in">>)
  ELSE
    LET newUsername == Trim(SliceJoin(parts, 1))
    IN IF newUsername = <<>> THEN
         sendToSocket(s, socket, <<"ERR", "invalid-username">>)
       ELSE IF Has(s.users, newUsername) THEN
         sendToSocket(s, socket, <<"ERR", "username-taken">>)
       ELSE
         sendToSocket(
           [s EXCEPT !.users =
              SetNew(@, newUsername,
                     [socket |-> socket, lastActivity |-> t,
                      disconnecting |-> FALSE])],
           socket, <<"OK">>)

\* mutant: the message goes out with broadcast(), which leaves the sender out
cmdMsgExcludingSender(s, socket, username, parts) ==
  LET text == Trim(SliceJoin(parts, 1))
  IN IF text = <<>>
       THEN sendToSocket(s, socket, <<"ERR", "empty-message">>)
       ELSE broadcast(s, <<"MSG">> \o username \o text, socket)

\* lines 144-154
cmdMsg(s, socket, username, parts) ==
  LET text == Trim(SliceJoin(parts, 1))
  IN IF text = <<>>
       THEN sendToSocket(s, socket, <<"ERR", "empty-message">>)
       ELSE broadcastToAll(s, <<"MSG">> \o username \o text)

\* lines 163-165: one USER line per key of the Map, in Map order
RECURSIVE whoFrom(_, _, _)
whoFrom(s, socket, i) ==
  IF i > Len(s.users) THEN s
  ELSE whoFrom(sendToSocket(s, socket, <<"USER">> \o s.users[i].username),
               socket, i + 1)

\* mutant: the listing starts at the second entry of the Map
cmdWhoSkipsFirst(s, socket) ==
  IF Len(s.users) = 0
    THEN sendToSocket(s, socket, <<"INFO", "no-users-online">>)
    ELSE whoFrom(s, socket, 2)

\* lines 157-167
cmdWho(s, socket) ==
  IF Len(s.users) = 0
    THEN sendToSocket(s, socket, <<"INFO", "no-users-online">>)
    ELSE whoFrom(s, socket, 1)

\* mutant: the reply for a missing target goes out with broadcast()
cmdDmBroadcastsNotFound(s, socket, username, parts) ==
  IF Len(parts) < 3 THEN
    sendToSocket(s, socket, <<"ERR", "invalid-dm-format">>)
  ELSE
    LET targetUsername == <<parts[2]>>
        text           == Trim(SliceJoin(parts, 2))
    IN IF text = <<>> THEN
         sendToSocket(s, socket, <<"ERR", "empty-message">>)
       ELSE IF ~Has(s.users, targetUsername) THEN
         broadcast(s, <<"ERR", "user-not-found">>, NoSocket)
       ELSE
         LET targetData == Get(s.users, targetUsername)
         IN IF s.destroyed[targetData.socket] THEN
              sendToSocket(s, socket, <<"ERR", "user-not-found">>)
            ELSE
              sendToSocket(
                sendToSocket(s, targetData.socket, <<"DM">> \o username \o text),
                socket, <<"DM-SENT">> \o targetUsername)

\* mutant: the targetData.socket.destroyed test of line 190 is missing
cmdDmNoDestroyedCheck(s, socket, username, parts) ==
  IF Len(parts) < 3 THEN
    sendToSocket(s, socket, <<"ERR", "invalid-dm-format">>)
  ELSE
    LET targetUsername == <<parts[2]>>
        text           == Trim(SliceJoin(parts, 2))
    IN IF text = <<>> THEN
         sendToSocket(s, socket, <<"ERR", "empty-message">>)
       ELSE IF ~Has(s.users, targetUsername) THEN
         sendToSocket(s, socket, <<"ERR", "user-not-found">>)
       ELSE
         LET targetData == Get(s.users, targetUsername)
         IN sendToSocket(
              sendToSocket(s, targetData.socket, <<"DM">> \o username \o text),
              socket, <<"DM-SENT">> \o targetUsername)

\* lines 170-198
cmdDm(s, socket, username, parts) ==
  IF Len(parts) < 3 THEN
    sendToSocket(s, socket, <<"ERR", "invalid-dm-format">>)
  ELSE
    LET targetUsername == <<parts[2]>>
        text           == Trim(SliceJoin(parts, 2))
    IN IF text = <<>> THEN
         sendToSocket(s, socket, <<"ERR", "empty-message">>)
       ELSE IF ~Has(s.users, targetUsername) THEN
         sendToSocket(s, socket, <<"ERR", "user-not-found">>)
       ELSE
         LET targetData == Get(s.users, targetUsername)
         IN IF s.destroyed[targetData.socket] THEN
              sendToSocket(s, socket, <<"ERR", "user-not-found">>)
            ELSE
              sendToSocket(
                sendToSocket(s, targetData.socket, <<"DM">> \o username \o text),
                socket, <<"DM-SENT">> \o targetUsername)

\* mutant: the login requirement of lines 138-141 is missing
DispatchNoLoginCheck(s, socket, username, parts, t) ==
  LET command == ToUpperCase(parts[1])
  IN IF command = "LOGIN" THEN cmdLogin(s, socket, username, parts, t)
     ELSE IF command = "MSG" THEN cmdMsg(s, socket, username, parts)
     ELSE IF command = "WHO" THEN cmdWho(s, socket)
     ELSE IF command = "DM" THEN cmdDm(s, socket, username, parts)
     ELSE IF command = "PING" THEN sendToSocket(s, socket, <<"PONG">>)
     ELSE sendToSocket(s, socket, <<"ERR", "unknown-command">>)

\* mutant: WHO is dispatched before the login requirement of lines 138-141
DispatchWhoFirst(s, socket, username, parts, t) ==
  LET command == ToUpperCase(parts[1])
  IN IF command = "LOGIN" THEN cmdLogin(s, socket, username, parts, t)
     ELSE IF command = "WHO" THEN cmdWho(s, socket)
     ELSE IF username = null THEN
       sendToSocket(s, socket, <<"ERR", "not-logged-in">>)
     ELSE IF command = "MSG" THEN cmdMsg(s, socket, username, parts)
     ELSE IF command = "DM" THEN cmdDm(s, socket, username, parts)
     ELSE IF command = "PING" THEN sendToSocket(s, socket, <<"PONG">>)
     ELSE sendToSocket(s, socket, <<"ERR", "unknown-command">>)

\* lines 101-208: the dispatch on the command word
Dispatch(s, socket, username, parts, t) ==
  LET command == ToUpperCase(parts[1])
  IN IF command = "LOGIN" THEN cmdLogin(s, socket, username, parts, t)
     ELSE IF username = null THEN
       sendToSocket(s, socket, <<"ERR", "not-logged-in">>)
     ELSE IF command = "MSG" THEN cmdMsg(s, socket, username, parts)
     ELSE IF command = "WHO" THEN cmdWho(s, socket)
     ELSE IF command = "DM" THEN cmdDm(s, socket, username, parts)
     ELSE IF command = "PING" THEN sendToSocket(s, socket, <<"PONG">>)
     ELSE sendToSocket(s, socket, <<"ERR", "unknown-command">>)

\* mutant: updateActivity(socket) of line 99 is missing
handleCommandNoActivity(s, socket, data, t) ==
  LET message == Trim(data)
  IN IF message = <<>> THEN s
     ELSE Dispatch(s, socket, getUsernameBySocket(s.users, socket),
                   Split(message), t)

\* lines 94-208
handleCommand(s, socket, data, t) ==
  LET message == Trim(data)
  IN IF message = <<>> THEN s
     ELSE LET s0 == updateActivity(s, socket, t)
          IN Dispatch(s0, socket, getUsernameBySocket(s0.users, socket),
                      Split(message), t)

(* ------------------------------ idle sweep ---------------------------- *)

\* mutant: a session is idle from the threshold on
IsIdleAtThreshold(d, t) == t - d.lastActivity >= IDLE_TIMEOUT /\ ~d.disconnecting

\* line 216
IsIdle(d, t) == t - d.lastActivity > IDLE_TIMEOUT /\ ~d.disconnecting

\* lines 213-219: the sessions the sweep selects, in Map order
IdleSelection(us, t) == SelectSeq(us, LAMBDA d : IsIdle(d, t))

\* mutant: the session is torn down before the notice is written
EvictOneNoticeLast(s, socket) ==
  sendToSocket(handleDisconnect(s, socket), socket,
               <<"INFO", "disconnected-due-to-inactivity">>)

\* lines 222-224: notify the idle user, then tear the session down
EvictOne(s, socket) ==
  handleDisconnect(
    sendToSocket(s, socket, <<"INFO", "disconnected-due-to-inactivity">>),
    socket)

\* lines 221-225
RECURSIVE EvictFrom(_, _, _)
EvictFrom(s, usersToDisconnect, i) ==
  IF i > Len(usersToDisconnect) THEN s
  ELSE EvictFrom(EvictOne(s, usersToDisconnect[i].socket), usersToDisconnect, i + 1)

checkIdleUsers(s, t) == EvictFrom(s, IdleSelection(s.users, t), 1)

(* ------------------------------- shutdown ----------------------------- *)

\* lines 305-311: socket.destroy() on every socket the Map holds
RECURSIVE DestroyUsersFrom(_, _)
DestroyUsersFrom(s, i) ==
  IF i > Len(s.users) THEN s
  ELSE DestroyUsersFrom(Destroy(s, s.users[i].socket), i + 1)

\* lines 302-313 of the SIGINT handler
Shutdown(s) ==
  LET s1 == broadcast(s, <<"INFO", "server-shutting-down">>, NoSocket)
      s2 == DestroyUsersFrom(s1, 1)
  IN [s2 EXCEPT !.users = <<>>]

(* --------------------------- state machine ---------------------------- *)

NoOut == [c \in Conns |-> <<>>]

\* the program state a callback starts from: nothing written yet
Cur ==
  [users |-> users, destroyed |-> destroyed, out |-> NoOut,
   nBroadcast |-> nBroadcast, nDestroy |-> nDestroy, gone |-> gone]

Apply(r) ==
  /\ users' = r.users
  /\ destroyed' = r.destroyed
  /\ out' = r.out
  /\ nBroadcast' = r.nBroadcast
  /\ nDestroy' = r.nDestroy
  /\ gone' = r.gone

\* the raw lines clients send, as split at single spaces; the names asked for
\* are "a" and "a b", and nobody logs in as "c"
Lines ==
  { <<"LOGIN", "a">>, <<"login", "", "a", "b", "">>, <<"LOGIN">>,
    <<"MSG", "hi">>, <<"MSG">>, <<"WHO">>,
    <<"DM", "a", "hi">>, <<"DM", "a", "b", "hi">>, <<"DM", "c", "hi">>,
    <<"DM", "a">>,
    <<"", "PING">>, <<"QUIT">>, <<"">>, <<"", "">> }

Init ==
  /\ users = <<>>
  /\ destroyed = [c \in Conns |-> FALSE]
  /\ accepted = {}
  /\ now = 0
  /\ listening = TRUE
  /\ out = NoOut
  /\ nBroadcast = [c \in Conns |-> 0]
  /\ nDestroy = [c \in Conns |-> 0]
  /\ gone = [c \in Conns |-> null]

\* lines 232-240: the listener accepts a connection
Connect(c) ==
  /\ listening
  /\ c \notin accepted
  /\ accepted' = accepted \cup {c}
  /\ out' = NoOut
  /\ UNCHANGED <<users, destroyed, now, listening, nBroadcast, nDestroy, gone>>

\* lines 244-249: what the 'data' callback of connection c does with one
\* line; a blank line never reaches handleCommand
dataResult(c, data) ==
  IF Trim(data) # <<>> THEN handleCommand(Cur, c, data, now) ELSE Cur

\* lines 242-250, for a chunk that holds one line (a chunk of several lines is
\* several of these steps in a row, on a socket that stays open): a destroyed
\* socket emits no 'data'
OnData(c, data) ==
  /\ c \in accepted /\ ~destroyed[c]
  /\ Apply(dataResult(c, data))
  /\ UNCHANGED <<accepted, now, listening>>

\* lines 253-272: 'end', 'close', 'error' and 'timeout' all run handleDisconnect
disconnectResult(c) == handleDisconnect(Cur, c)

OnTerminate(c) ==
  /\ c \in accepted
  /\ Apply(disconnectResult(c))
  /\ UNCHANGED <<accepted, now, listening>>

OnEnd(c) == OnTerminate(c)
OnClose(c) == OnTerminate(c)
OnError(c) == OnTerminate(c)
OnTimeout(c) == OnTerminate(c)

\* the transport calls socket.destroy(err) on its own: socket.write() inside
\* lines 14, 25 or 34 fails at once on a reset connection, and the 'error' and
\* 'close' callbacks of lines 258-266 only run after the current callback, so
\* the rest of a chunk or of a sweep sees a Map entry whose socket is destroyed
TransportDestroy(c) ==
  /\ c \in accepted /\ ~destroyed[c]
  /\ Apply(Destroy(Cur, c))
  /\ UNCHANGED <<accepted, now, listening>>

\* line 229: the interval timer runs checkIdleUsers
sweepResult == checkIdleUsers(Cur, now)

IdleTimer ==
  /\ Apply(sweepResult)
  /\ UNCHANGED <<accepted, now, listening>>

\* lines 296-318: SIGINT.  The process exits at most 5 s later (lines 320-324),
\* before the clock's next tick, so Tick needs the server to be listening
Sigint ==
  /\ Apply(Shutdown(Cur))
  /\ listening' = FALSE
  /\ UNCHANGED <<accepted, now>>

\* Date.now() advances.  The 'error' callback of a socket the transport
\* destroyed runs in the same turn of the event loop, before the clock moves on
Tick ==
  /\ listening
  /\ \A i \in 1..Len(users) : ~destroyed[users[i].socket]
  /\ now < MaxTicks * TickMs
  /\ now' = now + TickMs
  /\ UNCHANGED <<users, destroyed, accepted, listening, out,
                 nBroadcast, nDestroy, gone>>

Next ==
  \/ \E c \in Conns : Connect(c)
  \/ \E c \in Conns, data \in Lines : OnData(c, data)
  \/ \E c \in Conns : OnEnd(c)
  \/ \E c \in Conns : OnClose(c)
  \/ \E c \in Conns : OnError(c)
  \/ \E c \in Conns : OnTimeout(c)
  \/ \E c \in Conns : TransportDestroy(c)
  \/ IdleTimer
  \/ Sigint
  \/ Tick

Spec == Init /\ [][Next]_vars

\* a sweep changes the state when it evicts a session or clears the record
\* of the lines last written: this is ENABLED <<IdleTimer>>_vars
SweepEnabled ==
  \/ out # NoOut
  \/ \E i \in 1..Len(users) : IsIdle(users[i], now)

\* the interval timer of line 229 keeps firing: weak fairness of IdleTimer,
\* with its enabling condition written out
FairSpec == Spec /\ ([]<>(~SweepEnabled) \/ []<><<IdleTimer>>_vars)

(* ---------------------- vocabulary of the properties ------------------ *)

Registered(c) == \E i \in 1..Len(users) : users[i].socket = c

NameOf(c) == getUsernameBySocket(users, c)

NamesIn(us) == { us[i].username : i \in 1..Len(us) }

RegisteredNames == NamesIn(users)

\* what each line of Lines asks for, written out line by line
LoginLines == { <<"LOGIN", "a">>, <<"login", "", "a", "b", "">>, <<"LOGIN">> }

RequestedName(data) ==
  CASE data = <<"LOGIN", "a">>                -> <<"a">>
    [] data = <<"login", "", "a", "b", "">>   -> <<"a", "b">>
    [] data = <<"LOGIN">>                     -> <<>>

LoginLineFor(name) ==
  CHOOSE data \in LoginLines : RequestedName(data) = name

\* the empty line and a line of one space
BlankLines == { <<"">>, <<"", "">> }

\* exactly one line written, to connection c
Only(c, line) == [NoOut EXCEPT ![c] = <<line>>]

\* a connection that can still send a command
Usable(c) == c \in accepted /\ ~destroyed[c]

\* The properties of a callback are stated on the state its step leaves, in
\* every reachable state where the step can be taken: dataResult(c, data) for
\* OnData(c, data), disconnectResult(c) for the socket events of c and
\* sweepResult for IdleTimer; r.out are the lines the step writes.

(* ------------------------------- C1 ----------------------------------- *)

NoDuplicateNames ==
  \A i, j \in 1..Len(users) : users[i].username = users[j].username => i = j

\* C1: a LOGIN from a connection without a session that asks for a name the
\* registry holds is answered ERR username-taken and leaves the registry as it
\* was; a LOGIN answered OK asked for a name the registry did not hold; and the
\* registry never holds two sessions of one name.
C1_UniqueNames ==
  /\ NoDuplicateNames
  /\ \A c \in Conns, data \in LoginLines :
       Usable(c) /\ NameOf(c) = null =>
         LET r == dataResult(c, data)
         IN /\ Has(users, RequestedName(data)) =>
                 /\ r.out = Only(c, <<"ERR", "username-taken">>)
                 /\ r.users = users
            /\ r.out[c] = << <<"OK">> >> => ~Has(users, RequestedName(data))

C1_Witness ==
  \E c \in Conns :
    /\ out = Only(c, <<"ERR", "username-taken">>)
    /\ ~Registered(c)
    /\ Len(users) >= 1

(* ------------------------------- C2 ----------------------------------- *)

\* what the others see when the session of c, named n, is torn down by an
\* event of c: one line each, nothing for c
DisconnectNotice(c, n) ==
  [d \in Conns |->
     IF d # c /\ Registered(d) /\ ~destroyed[d]
       THEN << <<"INFO">> \o n \o <<"disconnected">> >>
       ELSE <<>>]

\* C2: teardown is idempotent.  The first 'end', 'error', 'close' or 'timeout'
\* event of a connection with a session makes one 'INFO <name> disconnected'
\* broadcast and leaves the socket destroyed by exactly one destroy(); an event
\* of a connection without a session broadcasts nothing and changes no
\* registry entry; and whatever events and sweeps follow, a connection whose
\* session was torn down has had exactly one broadcast and one destroy().
C2_TeardownOnce ==
  /\ \A c \in Conns :
       /\ nBroadcast[c] <= 1
       /\ gone[c] # null =>
            nBroadcast[c] = 1 /\ nDestroy[c] = 1 /\ destroyed[c] /\ ~Registered(c)
  /\ \A c \in accepted :
       LET r == disconnectResult(c)
       IN IF NameOf(c) # null
            THEN /\ r.nBroadcast[c] = 1 /\ r.nDestroy[c] = 1 /\ r.destroyed[c]
                 /\ r.gone[c] = NameOf(c)
                 /\ r.out = DisconnectNotice(c, NameOf(c))
            ELSE /\ r.nBroadcast = nBroadcast /\ r.gone = gone
                 /\ r.users = users /\ r.out = NoOut
                 /\ r.destroyed[c]
                 /\ r.nDestroy[c] = IF destroyed[c] THEN nDestroy[c] ELSE 1

\* a session was torn down, and a later event found nothing more to do
C2_Witness ==
  \E c, d \in Conns :
    /\ gone[c] # null /\ nBroadcast[c] = 1 /\ nDestroy[c] = 1
    /\ d # c /\ Registered(d) /\ ~destroyed[d]
    /\ out = NoOut

(* ------------------------------- C3 ----------------------------------- *)

\* in the state r a teardown leaves, name n is free and the next LOGIN n of
\* any usable connection without a session is answered OK and creates the
\* session
FreeAfter(r, n) ==
  /\ ~Has(r.users, n)
  /\ \A c2 \in accepted :
       ~r.destroyed[c2] /\ getUsernameBySocket(r.users, c2) = null =>
         LET r2 == handleCommand([r EXCEPT !.out = NoOut], c2,
                                 LoginLineFor(n), now)
         IN /\ r2.out = Only(c2, <<"OK">>)
            /\ getUsernameBySocket(r2.users, c2) = n

\* C3: once handleDisconnect has run for a session, after a socket event or
\* in the idle sweep, its name is out of the registry and the very next LOGIN
\* with that name from a connection without a session is answered OK and
\* creates a new session.
C3_NameFreedByTeardown ==
  /\ \A c \in accepted :
       NameOf(c) # null => FreeAfter(disconnectResult(c), NameOf(c))
  /\ \A i \in 1..Len(users) :
       IsIdle(users[i], now) => FreeAfter(sweepResult, users[i].username)
  /\ \A c \in Conns, data \in LoginLines :
       Usable(c) /\ NameOf(c) = null /\ RequestedName(data) # <<>>
         /\ ~Has(users, RequestedName(data)) =>
            LET r == dataResult(c, data)
            IN /\ r.out = Only(c, <<"OK">>)
               /\ getUsernameBySocket(r.users, c) = RequestedName(data)

\* a name that was torn down on one connection is held by another
C3_Witness ==
  \E c, c2 \in Conns :
    /\ c # c2 /\ gone[c] # null
    /\ NameOf(c2) = gone[c]
    /\ out = Only(c2, <<"OK">>)

(* ------------------------------- C4 ----------------------------------- *)

\* the MSG line of Lines that carries a text, and the text
MsgTextLines == { <<"MSG", "hi">> }
MsgText(data) == <<"hi">>

\* C4 as stated: every connection of the registry, the sender's too, gets
\* 'MSG <sender> <text>' exactly once, and no other connection gets it.
C4_Original ==
  \A c \in Conns, data \in MsgTextLines :
    Usable(c) /\ NameOf(c) # null =>
      dataResult(c, data).out =
        [d \in Conns |->
           IF Registered(d)
             THEN << <<"MSG">> \o NameOf(c) \o MsgText(data) >>
             ELSE <<>>]

\* C4, amended: every connection of the registry whose socket is not
\* destroyed, the sender's too, gets 'MSG <sender> <text>' exactly once, and
\* no other connection gets any line.
C4_Broadcast ==
  \A c \in Conns, data \in MsgTextLines :
    Usable(c) /\ NameOf(c) # null =>
      dataResult(c, data).out =
        [d \in Conns |->
           IF Registered(d) /\ ~destroyed[d]
             THEN << <<"MSG">> \o NameOf(c) \o MsgText(data) >>
             ELSE <<>>]

\* the sender and another session both got the sender's message
C4_Witness ==
  \E c, d \in Conns :
    /\ c # d /\ NameOf(c) # null /\ Registered(d)
    /\ out[c] = << <<"MSG">> \o NameOf(c) \o <<"hi">> >>
    /\ out[d] = out[c]

(* ------------------------------- C5 ----------------------------------- *)

Overdue(c) ==
  \E i \in 1..Len(users) :
    users[i].socket = c /\ now - users[i].lastActivity > IDLE_TIMEOUT

IdleNotice == <<"INFO", "disconnected-due-to-inactivity">>

\* C5 as stated, its safety half: a sweep evicts every session that is older
\* than the threshold; the notice is written to its connection, which is then
\* destroyed, and the name is free for a new LOGIN.
C5_Original ==
  \A c \in Conns :
    Overdue(c) =>
      LET r == sweepResult
      IN /\ r.out[c] # <<>> /\ r.out[c][Len(r.out[c])] = IdleNotice
         /\ r.destroyed[c] /\ getUsernameBySocket(r.users, c) = null
         /\ FreeAfter(r, NameOf(c))

\* C5, amended: a sweep evicts every session that is older than the
\* threshold; unless its socket is already destroyed when the sweep reaches
\* it, the notice is the last line written to it before the sweep destroys it
\* (a socket the transport has destroyed gets nothing); the entry is removed
\* and the name is free for a new LOGIN; and under a fair timer an overdue
\* session does not stay so.
C5_IdleEviction ==
  /\ [](\A c \in Conns :
          Overdue(c) =>
            LET r == sweepResult
            IN /\ IF destroyed[c]
                    THEN r.out[c] = <<>>
                    ELSE /\ r.out[c] # <<>>
                         /\ r.out[c][Len(r.out[c])] = IdleNotice
                         /\ r.nDestroy[c] = 1
               /\ r.destroyed[c] /\ getUsernameBySocket(r.users, c) = null
               /\ r.gone[c] = NameOf(c)
               /\ FreeAfter(r, NameOf(c)))
  /\ \A c \in Conns : Overdue(c) ~> ~Overdue(c)

\* an idle session was evicted with the notice, while another session stayed
C5_Witness ==
  \E c, d \in Conns :
    /\ gone[c] # null /\ destroyed[c] /\ ~Registered(c)
    /\ out[c] = <<IdleNotice>>
    /\ Registered(d) /\ out[d] = << <<"INFO">> \o gone[c] \o <<"disconnected">> >>

(* ------------------------------- C6 ----------------------------------- *)

\* C6: a non-blank line that is no LOGIN, on a connection without a session,
\* is answered 'ERR not-logged-in' on that connection and does nothing else:
\* in every reachable state, that is the whole result of the 'data' callback
\* (the step OnData takes) for every such line on every such connection.
C6_NotLoggedIn ==
  \A c \in Conns, data \in Lines \ (LoginLines \cup BlankLines) :
    Usable(c) /\ NameOf(c) = null =>
      LET r == dataResult(c, data)
      IN /\ r.out = Only(c, <<"ERR", "not-logged-in">>)
         /\ r.users = users /\ r.destroyed = destroyed
         /\ r.nBroadcast = nBroadcast /\ r.nDestroy = nDestroy
         /\ r.gone = gone

C6_Witness ==
  \E c \in Conns :
    /\ out = Only(c, <<"ERR", "not-logged-in">>)
    /\ ~Registered(c) /\ Len(users) >= 1

(* ------------------------------- C7 ----------------------------------- *)

\* C7: a LOGIN on a connection that has a session is answered
\* 'ERR already-logged-in' whatever name it asks for, and changes neither the
\* registered names nor the name of any connection.
C7_AlreadyLoggedIn ==
  \A c \in Conns, data \in LoginLines :
    Usable(c) /\ NameOf(c) # null =>
      LET r == dataResult(c, data)
      IN /\ r.out = Only(c, <<"ERR", "already-logged-in">>)
         /\ NamesIn(r.users) = RegisteredNames
         /\ Len(r.users) = Len(users)
         /\ \A d \in Conns : getUsernameBySocket(r.users, d) = NameOf(d)

\* refused while the name the other LOGIN line asks for is free
C7_Witness ==
  \E c \in Conns :
    /\ out = Only(c, <<"ERR", "already-logged-in">>)
    /\ Registered(c) /\ Len(users) = 1

(* ------------------------------- C8 ----------------------------------- *)

\* the DM lines of Lines that carry a text, and the target each names
DmTextLines == { <<"DM", "a", "hi">>, <<"DM", "a", "b", "hi">>, <<"DM", "c", "hi">> }
DmTarget(data) == <<data[2]>>

\* C8: a DM of a logged-in user to a name the registry does not hold is
\* answered 'ERR user-not-found' to the sender; nobody else gets a line and
\* the registry keeps its members.
C8_DmUnknownTarget ==
  \A c \in Conns, data \in DmTextLines :
    Usable(c) /\ NameOf(c) # null /\ ~Has(users, DmTarget(data)) =>
      LET r == dataResult(c, data)
      IN /\ r.out = Only(c, <<"ERR", "user-not-found">>)
         /\ NamesIn(r.users) = RegisteredNames
         /\ \A d \in Conns : getUsernameBySocket(r.users, d) = NameOf(d)

\* refused while another session is there to hear
C8_Witness ==
  \E c, d \in Conns :
    /\ out = Only(c, <<"ERR", "user-not-found">>)
    /\ d # c /\ Registered(c) /\ Registered(d) /\ ~destroyed[d]

(* ------------------------------- C9 ----------------------------------- *)

WhoLines == { <<"WHO">> }

\* a reply of exactly one USER line per registered name
IsUserListing(reply) ==
  /\ Len(reply) = Cardinality(RegisteredNames)
  /\ { reply[k] : k \in 1..Len(reply) } = { <<"USER">> \o n : n \in RegisteredNames }

\* C9 as stated: WHO with an empty registry is answered 'INFO no-users-online';
\* otherwise a logged-in requester gets one USER line per registered name.
C9_Original ==
  \A c \in Conns, data \in WhoLines :
    Usable(c) =>
      LET r == dataResult(c, data)
      IN IF users = <<>>
           THEN r.out = Only(c, <<"INFO", "no-users-online">>)
           ELSE NameOf(c) # null =>
                  /\ IsUserListing(r.out[c])
                  /\ \A d \in Conns \ {c} : r.out[d] = <<>>

\* C9, amended: WHO replies to the requester only.  A requester without a
\* session, the only kind there is while the registry is empty, gets
\* 'ERR not-logged-in'; a logged-in requester gets exactly one USER line per
\* registered name, its own among them, and no duplicates.
C9_Who ==
  \A c \in Conns, data \in WhoLines :
    Usable(c) =>
      LET r == dataResult(c, data)
      IN IF NameOf(c) = null
           THEN r.out = Only(c, <<"ERR", "not-logged-in">>)
           ELSE /\ IsUserListing(r.out[c])
                /\ <<"USER">> \o NameOf(c) \in { r.out[c][k] : k \in 1..Len(r.out[c]) }
                /\ \A d \in Conns \ {c} : r.out[d] = <<>>

\* a listing of two users
C9_Witness ==
  \E c \in Conns :
    /\ Registered(c) /\ Len(users) = 2
    /\ out[c] = << <<"USER">> \o users[1].username, <<"USER">> \o users[2].username >>

(* ------------------------------- C10 ---------------------------------- *)

\* C10: SIGINT writes 'INFO server-shutting-down' to every registered
\* session, destroys every connection the server holds, logged in or not, and
\* leaves the registry empty.
C10_ShutdownClosesAll ==
  [][Sigint =>
       /\ \A c \in Conns :
            Registered(c) /\ ~destroyed[c] =>
              out'[c] = << <<"INFO", "server-shutting-down">> >>
       /\ \A c \in accepted : destroyed'[c]
       /\ users' = <<>>
    ]_vars

(* ------------------------------- C11 ---------------------------------- *)

\* C11: a termination event on a connection a whose session was torn down,
\* while another connection b holds the name a had, leaves the registry as it
\* is (the entry of b with it), writes no line to anyone, so no
\* 'INFO <name> disconnected', and counts no broadcast.
C11_LateEventHarmless ==
  \A a \in accepted, b \in Conns :
    gone[a] # null /\ b # a /\ NameOf(b) = gone[a] =>
      LET r == disconnectResult(a)
      IN /\ r.users = users
         /\ getUsernameBySocket(r.users, b) = gone[a]
         /\ r.out = NoOut
         /\ r.nBroadcast = nBroadcast /\ r.gone = gone

\* the name of a torn down session is held by a live session of another
\* connection, and the step just taken wrote nothing
C11_Witness ==
  \E a, b \in Conns :
    /\ a # b /\ gone[a] # null /\ destroyed[a] /\ nBroadcast[a] = 1
    /\ NameOf(b) = gone[a] /\ ~destroyed[b]
    /\ out = NoOut

(* ------------------------------- C12 ---------------------------------- *)

\* how often a line was written
Count(lines, line) == Cardinality({ k \in 1..Len(lines) : lines[k] = line })

DisconnectedLine(n) == <<"INFO">> \o n \o <<"disconnected">>

\* in the state r a callback leaves, the session n of connection c is out of
\* the registry, c was not written 'INFO n disconnected', and every session
\* still in the registry whose socket was open was written it exactly once
NotifiedAfterRemoval(r, c, n) ==
  /\ ~Has(r.users, n) /\ getUsernameBySocket(r.users, c) = null
  /\ Count(r.out[c], DisconnectedLine(n)) = 0
  /\ \A d \in Conns :
       getUsernameBySocket(r.users, d) # null /\ ~destroyed[d] =>
         Count(r.out[d], DisconnectedLine(n)) = 1

\* C12: teardown, by a socket event or by the idle sweep, removes the session
\* before it notifies: 'INFO <name> disconnected' reaches every session that
\* remains in the registry with an open connection, once, and never the
\* connection being torn down.
C12_RemoveBeforeNotify ==
  /\ \A c \in accepted :
       NameOf(c) # null => NotifiedAfterRemoval(disconnectResult(c), c, NameOf(c))
  /\ \A c \in Conns :
       Overdue(c) => NotifiedAfterRemoval(sweepResult, c, NameOf(c))

\* a session with an open socket was torn down by an event: it got nothing,
\* and a session that remains got the line
C12_Witness ==
  \E c, d \in Conns :
    /\ gone[c] # null /\ ~Registered(c) /\ out[c] = <<>>
    /\ d # c /\ Registered(d) /\ ~destroyed[d]
    /\ out[d] = << DisconnectedLine(gone[c]) >>
    /\ nDestroy[c] = 1

(* ------------------------------- C13 ---------------------------------- *)

\* the text each DM line of DmTextLines carries after its target
DmText(data) ==
  CASE data = <<"DM", "a", "hi">>      -> <<"hi">>
    [] data = <<"DM", "a", "b", "hi">> -> <<"b", "hi">>
    [] data = <<"DM", "c", "hi">>      -> <<"hi">>

\* C13: a DM of a logged-in sender to a name the registry holds.  If the
\* target's socket is not destroyed, the target's connection is written
\* 'DM <sender> <text>' once, the sender's connection 'DM-SENT <target>' once,
\* and nothing else is written to anyone; if it is destroyed, the sender is
\* written 'ERR user-not-found' and nobody else anything.
C13_DmDelivery ==
  \A c \in Conns, data \in DmTextLines :
    Usable(c) /\ NameOf(c) # null /\ Has(users, DmTarget(data)) =>
      LET r == dataResult(c, data)
          target == Get(users, DmTarget(data)).socket
          dm == <<"DM">> \o NameOf(c) \o DmText(data)
          sent == <<"DM-SENT">> \o DmTarget(data)
      IN IF ~destroyed[target]
           THEN /\ Count(r.out[target], dm) = 1
                /\ Count(r.out[c], sent) = 1
                /\ \A d \in Conns :
                     Len(r.out[d]) = (IF d = target THEN 1 ELSE 0)
                                       + (IF d = c THEN 1 ELSE 0)
           ELSE r.out = Only(c, <<"ERR", "user-not-found">>)

\* a message went from one session to another, and was acknowledged
C13_Witness ==
  \E c, d \in Conns :
    /\ c # d /\ NameOf(c) # null /\ NameOf(d) # null
    /\ out[d] = << <<"DM">> \o NameOf(c) \o <<"hi">> >>
    /\ out[c] = << <<"DM-SENT">> \o NameOf(d) >>

(* ------------------------------- C14 ---------------------------------- *)

\* the lastActivity of the session connection c has in registry us
ActivityOf(us, c) == Get(us, getUsernameBySocket(us, c)).lastActivity

\* C14: every non-blank line on a connection with a session, whatever the
\* reply, leaves that session with lastActivity = now; a LOGIN answered OK
\* creates the session with lastActivity = now; a blank line writes nothing
\* and changes nothing.
C14_Activity ==
  \A c \in Conns, data \in Lines :
    Usable(c) =>
      LET r == dataResult(c, data)
      IN IF data \in BlankLines
           THEN r = Cur
           ELSE /\ NameOf(c) # null =>
                     /\ getUsernameBySocket(r.users, c) = NameOf(c)
                     /\ ActivityOf(r.users, c) = now
                     /\ r.out[c] # <<>>
                /\ NameOf(c) = null /\ r.out[c] = << <<"OK">> >> =>
                     /\ getUsernameBySocket(r.users, c) # null
                     /\ ActivityOf(r.users, c) = now

\* a session created at time 0 sent an unknown command later
C14_Witness ==
  \E c, d \in Conns :
    /\ c # d /\ Registered(c) /\ Registered(d)
    /\ ActivityOf(users, d) = 0 /\ ActivityOf(users, c) = now /\ now > 0
    /\ out = Only(c, <<"ERR", "unknown-command">>)

(* ------------------------------- C15 ---------------------------------- *)

\* the session is older than the threshold
PastThreshold(d) == now - d.lastActivity > IDLE_TIMEOUT

\* C15: one run of checkIdleUsers leaves in the registry exactly the sessions
\* that were within the threshold when it started, untouched and in their
\* order, and has torn down every session that was past it.
C15_SweepSelection ==
  LET r == sweepResult
  IN /\ r.users = SelectSeq(users, LAMBDA d : ~PastThreshold(d))
     /\ \A i \in 1..Len(users) :
          PastThreshold(users[i]) =>
            /\ r.gone[users[i].socket] = users[i].username
            /\ r.destroyed[users[i].socket]
            /\ r.nBroadcast[users[i].socket] = 1

\* a sweep evicted one session and kept one that was exactly at the threshold
C15_Witness ==
  \E c, d \in Conns :
    /\ gone[c] # null /\ ~Registered(c) /\ out[c] = <<IdleNotice>>
    /\ Registered(d) /\ now - ActivityOf(users, d) = IDLE_TIMEOUT

(* ------------------------------- C16 ---------------------------------- *)

\* C16: between callbacks no session of the registry has its disconnecting
\* flag set: the flag is set and the entry deleted within one run of
\* handleDisconnect, so the results of the callbacks never hold such an entry
\* either.
C16_NoDisconnectingEntry ==
  /\ \A i \in 1..Len(users) : ~users[i].disconnecting
  /\ \A c \in accepted :
       \A i \in 1..Len(disconnectResult(c).users) :
         ~disconnectResult(c).users[i].disconnecting
  /\ \A i \in 1..Len(sweepResult.users) : ~sweepResult.users[i].disconnecting

\* one session was torn down and another is still in the registry
C16_Witness ==
  \E c \in Conns :
    /\ gone[c] # null /\ destroyed[c] /\ nBroadcast[c] = 1
    /\ Len(users) >= 1
    /\ \A i \in 1..Len(users) : users[i].socket # c /\ ~users[i].disconnecting

(* ------------------------------- C17 ---------------------------------- *)

NoDuplicateSockets ==
  \A i, j \in 1..Len(users) : users[i].socket = users[j].socket => i = j

\* C17: connections and names of the registry are one-to-one: no two entries
\* hold the same connection (or the same name), getUsernameBySocket gives
\* the name of the one entry of a connection that has one, and null for a
\* connection that was never accepted or whose session was torn down.
C17_OneToOne ==
  /\ NoDuplicateSockets
  /\ NoDuplicateNames
  /\ \A i \in 1..Len(users) : NameOf(users[i].socket) = users[i].username
  /\ \A c \in Conns :
       (c \notin accepted \/ gone[c] # null) => NameOf(c) = null
  /\ \A c \in Conns, data \in Lines :
       Usable(c) => LET us == dataResult(c, data).users
                    IN \A i, j \in 1..Len(us) : us[i].socket = us[j].socket => i = j

\* two sessions on two connections, one of which just tried a second LOGIN
C17_Witness ==
  \E c \in Conns :
    /\ Len(users) = 2 /\ users[1].socket # users[2].socket
    /\ Registered(c)
    /\ out = Only(c, <<"ERR", "already-logged-in">>)

(* ------------------------------- C18 ---------------------------------- *)

NoUsersOnline == <<"INFO", "no-users-online">>

\* C18: no callback ever writes 'INFO no-users-online': no state holds the
\* line among the lines last written, no line of any usable connection is
\* answered with it, and a WHO that is answered with a listing, which needs a
\* session, is answered with 'USER <requester>' among its lines.
C18_NoUsersOnlineUnreachable ==
  /\ \A c \in Conns : Count(out[c], NoUsersOnline) = 0
  /\ \A c \in Conns, data \in Lines :
       Usable(c) =>
         LET r == dataResult(c, data)
         IN /\ \A d \in Conns : Count(r.out[d], NoUsersOnline) = 0
            /\ data \in WhoLines /\ NameOf(c) # null =>
                 /\ r.users # <<>>
                 /\ Count(r.out[c], <<"USER">> \o NameOf(c)) = 1

\* the only session asked WHO and was listed
C18_Witness ==
  \E c \in Conns :
    /\ Len(users) = 1 /\ Registered(c)
    /\ out = Only(c, <<"USER">> \o NameOf(c))

(* ------------------------------- C19 ---------------------------------- *)

\* the line 'DM <name> hi' as it arrives, split at single spaces
DmLineFor(name) == <<"DM">> \o name \o <<"hi">>

\* C19: every name of the registry whose socket is not destroyed, a name of
\* several words included, is reached by 'DM <name> hi' from any session:
\* its connection is written 'DM <sender> hi'.
C19_EveryUserAddressable ==
  \A c \in Conns, i \in 1..Len(users) :
    Usable(c) /\ NameOf(c) # null /\ ~destroyed[users[i].socket] =>
      LET r == dataResult(c, DmLineFor(users[i].username))
      IN Count(r.out[users[i].socket], <<"DM">> \o NameOf(c) \o <<"hi">>) = 1

(* ------------------------------- C20 ---------------------------------- *)

\* C20: once the SIGINT handler has run, the registry is empty and stays so:
\* no LOGIN received afterwards creates a session.
C20_RegistryStaysEmpty == ~listening => users = <<>>

====
